---- MODULE Spec2Model ----
(***************************************************************************)
(* Model of StripePy's one-dimensional persistence engine                  *)
(* (stripepy/utils/persistence1d.py) and of the chromosome loops of the    *)
(* two orchestrators (stripepy/cli/call.py, stripepy/dash_gui/callbacks.py)*)
(*                                                                         *)
(* Python sequences are 0-indexed.  Signals and the union-find domain are  *)
(* functions over 0..N-1; Python lists that are only appended to and       *)
(* sliced are TLA+ sequences, and At(s, p) reads 0-indexed position p.     *)
(***************************************************************************)
EXTENDS Integers, Sequences, FiniteSets, TLC

(***************************************************************************)
(* Bounds of the model.                                                    *)
(***************************************************************************)
\* longest signal drawn by Init
MaxLen == 4
\* signal values are drawn from 0..MaxVal
MaxVal == 3

\* most chromosomes in a file
MaxChroms == 2
\* chromosome sizes are drawn from 0..MaxSize
MaxSize == 1
\* most parameters that differ from the last-used tuple
MaxChanged == 2
\* step 3: most seeds of a chromosome, largest seed locus, most processes
MaxSeeds == 3
MaxSeed == 2
MaxProc == 3
\* command line: probabilities are written k / ProbDenominator with k up to
\* MaxNumerator, --max-width values go up to MaxWidthArg
ProbDenominator == 2
MaxNumerator == 3
MaxWidthArg == 1
\* GUI: largest resolution of a multi-resolution file
MaxRes == 5
\* GUI axes: longest tick list, largest tick value, largest max_number
MaxListLen == 6
MaxTick == 1
MaxNumber == 4

\* the worked example of the specification (section 8), as a 0-indexed signal
ExampleSignal == [i \in 0..4 |-> <<1, 5, 2, 8, 3>>[i + 1]]

Values == 0..MaxVal
Signals == UNION {[0..(n - 1) -> Values] : n \in 0..MaxLen} \cup {ExampleSignal}
Modes == {"lower", "upper"}
\* thresholds handed to the filter
Thresholds == 0..MaxVal

VARIABLES
    data,          \* the signal handed to run_persistence
    level_sets,    \* "lower" or "upper"
    sorted_idx,    \* the processing order (sequence of indices)
    pos,           \* number of indices of sorted_idx already processed
    Domain,        \* the union-find structure: parent of every index, or NOSET
    extremum_points_and_persistence,   \* the list being built
    pc,            \* position in run_persistence
    filtered,      \* result of the last FilterExtremumPointsByPersistence call
    Threshold      \* threshold of that call

pvars == <<data, level_sets, sorted_idx, pos, Domain,
           extremum_points_and_persistence, pc, filtered, Threshold>>

VARIABLES
    entry,               \* which orchestrator runs: "cli" (call.run) or "gui"
    chroms,              \* f.chromosomes(): sizes in file order, names are 1..Len
    min_chrom_size,      \* configs_thresholds["min_chrom_size"] / local of the GUI
    roi,                 \* configs_input["roi"] is not None
    c_pairs,             \* call.run: the (index, chromosome) pairs to study
    cidx,                \* call.run: number of c_pairs already processed
    stage,               \* call.run: stages completed for the current chromosome
    input_params,        \* GUI: the current parameter tuple (0-indexed)
    chrom_name,          \* GUI: 0 for the whole genome, else a chromosome
    functions_sequence,  \* GUI: result of _where_to_start_calling_sequence
    tasks,               \* GUI: the planned (name, size, skip) tasks
    ti,                  \* GUI: number of tasks already iterated
    fi,                  \* GUI: number of functions iterated for the task
    lt_matrix,           \* chromosome whose working matrices are bound
    result,              \* chromosome whose result object is bound
    steps_run,           \* the (chromosome, step) pairs that were started
    written,             \* call.run: chromosomes written to the result file
    opc                  \* position in the orchestrator

ovars == <<entry, chroms, min_chrom_size, roi, c_pairs, cidx, stage, input_params,
           chrom_name, functions_sequence, tasks, ti, fi, lt_matrix, result,
           steps_run, written, opc>>

(***************************************************************************)
(* State of one call of step_3 with the map that call.run hands to it.     *)
(***************************************************************************)
VARIABLES
    seeds,               \* the seed loci step 2 left in the result, in order
    nproc,               \* configs_other["nproc"]
    pool,                \* number of workers of the pool, NoPool for None
    next_task,           \* pool.map: number of work items already handed out
    running,             \* pool.map: the item each worker is computing, 0 if idle
    finished,            \* pool.map: the computed value of each completed item
    completion,          \* pool.map: item positions in the order of completion
    stripes,             \* the sequence of candidate stripes step 3 returns
    mpc                  \* position in step 3

mvars == <<seeds, nproc, pool, next_task, running, finished, completion, stripes, mpc>>

(***************************************************************************)
(* State of one call of setup.parse_args for the `call` subcommand.        *)
(***************************************************************************)
VARIABLES
    cli_args,            \* the options as written on the command line
    fs,                  \* what the file system holds at the paths given
    args,                \* the dictionary built from the parsed namespace
    error,               \* the message of parser.error, if it was called
    apc                  \* position in parse_args

avars == <<cli_args, fs, args, error, apc>>

(***************************************************************************)
(* State of one call of DiversifyExtremumPointsAndPersistence.             *)
(***************************************************************************)
VARIABLES
    ExtremumPointsAndPersistence,   \* the list handed to the function
    MinimumPointsAndPersistence,    \* the returned list of minima
    MaximumPointsAndPersistence     \* the returned list of maxima

dvars == <<ExtremumPointsAndPersistence, MinimumPointsAndPersistence,
           MaximumPointsAndPersistence>>

(***************************************************************************)
(* State of one call of _pick_closest.                                     *)
(***************************************************************************)
VARIABLES
    array,               \* the resolutions of the file, ascending
    target_res,          \* the resolution looked for
    closest,             \* the returned value
    kpc                  \* position in _pick_closest

kvars == <<array, target_res, closest, kpc>>

(***************************************************************************)
(* State of one call of _trim_list.                                        *)
(***************************************************************************)
VARIABLES
    list_long,           \* the list to trim
    max_number,          \* the largest length wanted
    step_size,           \* distance between two picked positions
    loop_i,              \* the loop variable i of range(0, original_length, step_size)
    trimmed_list,        \* the list being built
    picked,              \* the 0-based positions of list_long picked so far
    tpc                  \* position in _trim_list

tvars == <<list_long, max_number, step_size, loop_i, trimmed_list, picked, tpc>>

vars == <<pvars, ovars, mvars, avars, dvars, kvars, tvars>>

(***************************************************************************)
(* Small helpers.                                                          *)
(***************************************************************************)
At(s, p) == s[p + 1]
NumElements(d) == Cardinality(DOMAIN d)
Max2(a, b) == IF a >= b THEN a ELSE b
Min2(a, b) == IF a <= b THEN a ELSE b
Neg(d) == [i \in DOMAIN d |-> 0 - d[i]]
Swap(m) == IF m = "lower" THEN "upper" ELSE "lower"
Reverse(s) == [k \in 1..Len(s) |-> s[Len(s) + 1 - k]]

(***************************************************************************)
(* Persistence values: a finite number or numpy's +inf.                    *)
(***************************************************************************)
PFin(v) == [inf |-> FALSE, val |-> v]
PInf == [inf |-> TRUE, val |-> 0]
\* mutant: the comparison is not strict
PGreater_OrEqual(p, t) == p.inf \/ p.val >= t
\* p > t as numpy compares: +inf is greater than every finite threshold
PGreater(p, t) == p.inf \/ p.val > t
Pair(i, p) == [idx |-> i, pers |-> p]

(***************************************************************************)
(* np.argsort(data, kind="stable"): indices by value ascending, equal      *)
(* values in index order; reversed as a whole for level_sets = "upper".    *)
(***************************************************************************)
StableRank(d, i) ==
    Cardinality({j \in DOMAIN d : d[j] < d[i] \/ (d[j] = d[i] /\ j < i)})
ArgsortStable(d) ==
    [k \in 1..NumElements(d) |-> CHOOSE i \in DOMAIN d : StableRank(d, i) = k - 1]
\* mutant: the order is not reversed for "upper"
SortedIdx_NoReverse(d, m) == ArgsortStable(d)
\* mutant: "upper" sorts the negated signal instead of reversing the order
SortedIdx_NegatedArgsort(d, m) ==
    IF m = "upper" THEN ArgsortStable(Neg(d)) ELSE ArgsortStable(d)
SortedIdx(d, m) ==
    IF m = "upper" THEN Reverse(ArgsortStable(d)) ELSE ArgsortStable(d)

(***************************************************************************)
(* UnionFind (stripepy/utils/unionfind.py).  An unset element holds NOSET, *)
(* a root holds its own index, any other element holds its parent.         *)
(***************************************************************************)
NOSET == -1
UnionFindInit(n) == [i \in 0..(n - 1) |-> NOSET]
RECURSIVE Find(_, _)
Find(uf, i) ==
    IF uf[i] = NOSET THEN NOSET
    ELSE IF uf[i] = i THEN i
    ELSE Find(uf, uf[i])
MakeSet(uf, i) == IF uf[i] # NOSET THEN uf ELSE [uf EXCEPT ![i] = i]
ExtendSetByID(uf, root, i) == [uf EXCEPT ![i] = root]
\* Union(a, b): the set rooted at a is merged into the set rooted at b
Union(uf, a, b) ==
    LET ra == Find(uf, a)
        rb == Find(uf, b)
    IN  IF ra = NOSET \/ rb = NOSET \/ ra = rb THEN uf
        ELSE [uf EXCEPT ![ra] = rb]

(***************************************************************************)
(* One iteration of the watershed loop.                                    *)
(***************************************************************************)
LeftIdx(idx) == Max2(idx - 1, 0)
\* mutant: the right neighbour wraps around the end of the signal
RightIdx_Wrapping(d, idx) == (idx + 1) % NumElements(d)
RightIdx(d, idx) == Min2(idx + 1, NumElements(d) - 1)
\* roots of the components touching idx, left neighbour first
\* mutant: the neighbours themselves are listed, not their roots
NeighborComponents_NotRoots(d, uf, idx) ==
    LET l == LeftIdx(idx)
        r == RightIdx(d, idx)
    IN  (IF Find(uf, l) # NOSET THEN <<l>> ELSE <<>>)
        \o (IF Find(uf, r) # NOSET THEN <<r>> ELSE <<>>)
NeighborComponents(d, uf, idx) ==
    LET l == Find(uf, LeftIdx(idx))
        r == Find(uf, RightIdx(d, idx))
    IN  (IF l # NOSET THEN <<l>> ELSE <<>>) \o (IF r # NOSET THEN <<r>> ELSE <<>>)
\* np.argmin / np.argmax over data[comps]: the first position of the extreme
\* mutant: argmax where argmin is meant
ArgMin_AsArgMax(d, comps) ==
    CHOOSE k \in 1..Len(comps) :
        /\ \A j \in 1..Len(comps) : d[comps[k]] >= d[comps[j]]
        /\ \A j \in 1..(k - 1) : d[comps[j]] < d[comps[k]]
ArgMin(d, comps) ==
    CHOOSE k \in 1..Len(comps) :
        /\ \A j \in 1..Len(comps) : d[comps[k]] <= d[comps[j]]
        /\ \A j \in 1..(k - 1) : d[comps[j]] > d[comps[k]]
\* mutant: argmin where argmax is meant
ArgMax_AsArgMin(d, comps) ==
    CHOOSE k \in 1..Len(comps) :
        /\ \A j \in 1..Len(comps) : d[comps[k]] <= d[comps[j]]
        /\ \A j \in 1..(k - 1) : d[comps[j]] > d[comps[k]]
\* mutant: of equal maxima the last one is taken
ArgMax_LastOccurrence(d, comps) ==
    CHOOSE k \in 1..Len(comps) :
        /\ \A j \in 1..Len(comps) : d[comps[k]] >= d[comps[j]]
        /\ \A j \in (k + 1)..Len(comps) : d[comps[j]] < d[comps[k]]
ArgMax(d, comps) ==
    CHOOSE k \in 1..Len(comps) :
        /\ \A j \in 1..Len(comps) : d[comps[k]] >= d[comps[j]]
        /\ \A j \in 1..(k - 1) : d[comps[j]] < d[comps[k]]
\* [comp for comp in comps if comp != keep]
OtherComponents(comps, keep) == SelectSeq(comps, LAMBDA c : c # keep)

\* mutant: the component with the higher minimum survives
MergeLowerUF_WrongSurvivor(d, uf, idx) ==
    LET nc == NeighborComponents(d, uf, idx)
        idx_lowest_minimum == nc[ArgMin(d, nc)]
        idx_highest_minimum == OtherComponents(nc, idx_lowest_minimum)[1]
    IN  Union(ExtendSetByID(uf, idx_highest_minimum, idx),
              idx_lowest_minimum, idx_highest_minimum)
\* mutant: only the merged-away minimum is recorded
MergeLowerEntries_OneEntry(d, uf, idx) ==
    LET nc == NeighborComponents(d, uf, idx)
        idx_lowest_minimum == nc[ArgMin(d, nc)]
        idx_highest_minimum == OtherComponents(nc, idx_lowest_minimum)[1]
        persistence == d[idx] - d[idx_highest_minimum]
    IN  <<Pair(idx_highest_minimum, PFin(persistence))>>
\* mutant: the maximum is recorded before the minimum
MergeLowerEntries_Swapped(d, uf, idx) ==
    LET nc == NeighborComponents(d, uf, idx)
        idx_lowest_minimum == nc[ArgMin(d, nc)]
        idx_highest_minimum == OtherComponents(nc, idx_lowest_minimum)[1]
        persistence == d[idx] - d[idx_highest_minimum]
    IN  <<Pair(idx, PFin(persistence)), Pair(idx_highest_minimum, PFin(persistence))>>
\* lines 74-82: the state after a merge in lower mode
MergeLowerUF(d, uf, idx) ==
    LET nc == NeighborComponents(d, uf, idx)
        idx_lowest_minimum == nc[ArgMin(d, nc)]
        idx_highest_minimum == OtherComponents(nc, idx_lowest_minimum)[1]
    IN  Union(ExtendSetByID(uf, idx_lowest_minimum, idx),
              idx_highest_minimum, idx_lowest_minimum)
\* mutant: the maximum's persistence is measured from the surviving minimum
MergeLowerEntries_UnequalPersistence(d, uf, idx) ==
    LET nc == NeighborComponents(d, uf, idx)
        idx_lowest_minimum == nc[ArgMin(d, nc)]
        idx_highest_minimum == OtherComponents(nc, idx_lowest_minimum)[1]
        persistence == d[idx] - d[idx_highest_minimum]
    IN  <<Pair(idx_highest_minimum, PFin(persistence)),
          Pair(idx, PFin(d[idx] - d[idx_lowest_minimum]))>>
MergeLowerEntries(d, uf, idx) ==
    LET nc == NeighborComponents(d, uf, idx)
        idx_lowest_minimum == nc[ArgMin(d, nc)]
        idx_highest_minimum == OtherComponents(nc, idx_lowest_minimum)[1]
        persistence == d[idx] - d[idx_highest_minimum]
    IN  <<Pair(idx_highest_minimum, PFin(persistence)), Pair(idx, PFin(persistence))>>
\* mutant: the lower-mode difference is used in upper mode
MergeUpperEntries_SignFlipped(d, uf, idx) ==
    LET nc == NeighborComponents(d, uf, idx)
        idx_highest_maximum == nc[ArgMax(d, nc)]
        idx_lowest_maximum == OtherComponents(nc, idx_highest_maximum)[1]
        persistence == d[idx] - d[idx_lowest_maximum]
    IN  <<Pair(idx, PFin(persistence)), Pair(idx_lowest_maximum, PFin(persistence))>>
\* mutant: only the merge index is recorded
MergeUpperEntries_OneEntry(d, uf, idx) ==
    LET nc == NeighborComponents(d, uf, idx)
        idx_highest_maximum == nc[ArgMax(d, nc)]
        idx_lowest_maximum == OtherComponents(nc, idx_highest_maximum)[1]
        persistence == d[idx_lowest_maximum] - d[idx]
    IN  <<Pair(idx, PFin(persistence))>>
\* mutant: the merged-away maximum is recorded before the merge index
MergeUpperEntries_Swapped(d, uf, idx) ==
    LET nc == NeighborComponents(d, uf, idx)
        idx_highest_maximum == nc[ArgMax(d, nc)]
        idx_lowest_maximum == OtherComponents(nc, idx_highest_maximum)[1]
        persistence == d[idx_lowest_maximum] - d[idx]
    IN  <<Pair(idx_lowest_maximum, PFin(persistence)), Pair(idx, PFin(persistence))>>
\* lines 87-95: the state after a merge in upper mode
\* mutant: the component with the lower maximum survives
MergeUpperUF_WrongSurvivor(d, uf, idx) ==
    LET nc == NeighborComponents(d, uf, idx)
        idx_highest_maximum == nc[ArgMax(d, nc)]
        idx_lowest_maximum == OtherComponents(nc, idx_highest_maximum)[1]
    IN  Union(ExtendSetByID(uf, idx_lowest_maximum, idx),
              idx_highest_maximum, idx_lowest_maximum)
MergeUpperUF(d, uf, idx) ==
    LET nc == NeighborComponents(d, uf, idx)
        idx_highest_maximum == nc[ArgMax(d, nc)]
        idx_lowest_maximum == OtherComponents(nc, idx_highest_maximum)[1]
    IN  Union(ExtendSetByID(uf, idx_highest_maximum, idx),
              idx_lowest_maximum, idx_highest_maximum)
MergeUpperEntries(d, uf, idx) ==
    LET nc == NeighborComponents(d, uf, idx)
        idx_highest_maximum == nc[ArgMax(d, nc)]
        idx_lowest_maximum == OtherComponents(nc, idx_highest_maximum)[1]
        persistence == d[idx_lowest_maximum] - d[idx]
    IN  <<Pair(idx, PFin(persistence)), Pair(idx_lowest_maximum, PFin(persistence))>>

\* the loop body as a function of (union-find, list) for index idx
SweepUF(d, m, uf, idx) ==
    LET nc == NeighborComponents(d, uf, idx)
    IN  IF Len(nc) = 0 THEN MakeSet(uf, idx)
        ELSE IF Len(nc) = 1 THEN ExtendSetByID(uf, nc[1], idx)
        ELSE IF m = "lower" THEN MergeLowerUF(d, uf, idx)
        ELSE MergeUpperUF(d, uf, idx)
SweepEntries(d, m, uf, idx) ==
    LET nc == NeighborComponents(d, uf, idx)
    IN  IF Len(nc) < 2 THEN <<>>
        ELSE IF m = "lower" THEN MergeLowerEntries(d, uf, idx)
        ELSE MergeUpperEntries(d, uf, idx)

\* lines 97-101: the trailing global entry
GlobalEntry(uf) == Pair(Find(uf, 0), PInf)

(***************************************************************************)
(* run_persistence as a function: the loop unrolled over sorted_idx.       *)
(* Defined for signals of length >= 1 (Find(0) needs index 0).             *)
(***************************************************************************)
RECURSIVE SweepFrom(_, _, _, _, _, _)
SweepFrom(d, m, order, k, uf, acc) ==
    IF k > Len(order) THEN Append(acc, GlobalEntry(uf))
    ELSE SweepFrom(d, m, order, k + 1,
                   SweepUF(d, m, uf, order[k]),
                   acc \o SweepEntries(d, m, uf, order[k]))
run_persistence(d, m) ==
    SweepFrom(d, m, SortedIdx(d, m), 1, UnionFindInit(NumElements(d)), <<>>)

(***************************************************************************)
(* FilterExtremumPointsByPersistence: the list comprehension of line 119.  *)
(***************************************************************************)
RECURSIVE FilterFrom(_, _, _)
FilterFrom(x, t, k) ==
    IF k > Len(x) THEN <<>>
    ELSE (IF PGreater(x[k].pers, t) THEN <<x[k]>> ELSE <<>>) \o FilterFrom(x, t, k + 1)
FilterExtremumPointsByPersistence(x, t) == FilterFrom(x, t, 1)

(***************************************************************************)
(* run_persistence as a state machine: one action per loop iteration.      *)
(***************************************************************************)
PInit ==
    /\ data \in Signals
    /\ level_sets \in Modes
    /\ sorted_idx = <<>>
    /\ pos = 0
    /\ Domain = <<>>
    /\ extremum_points_and_persistence = <<>>
    /\ pc = "call"
    /\ filtered = <<>>
    /\ Threshold = 0

\* lines 40-47: the processing order, the union-find structure, the empty list
Setup ==
    /\ pc = "call"
    /\ sorted_idx' = SortedIdx(data, level_sets)
    /\ Domain' = UnionFindInit(NumElements(data))
    /\ extremum_points_and_persistence' = <<>>
    /\ pos' = 0
    /\ pc' = "sweep"
    /\ UNCHANGED <<data, level_sets, filtered, Threshold>>
    /\ UNCHANGED <<ovars, mvars, avars, dvars, kvars, tvars>>

InLoop == pc = "sweep" /\ pos < Len(sorted_idx)
CurrentIdx == sorted_idx[pos + 1]
NumNeighborComponents == Len(NeighborComponents(data, Domain, CurrentIdx))

\* lines 62-64: no component touches idx
NewComponent ==
    /\ InLoop
    /\ NumNeighborComponents = 0
    /\ Domain' = MakeSet(Domain, CurrentIdx)
    /\ pos' = pos + 1
    /\ UNCHANGED <<data, level_sets, sorted_idx, extremum_points_and_persistence,
                   pc, filtered, Threshold>>
    /\ UNCHANGED <<ovars, mvars, avars, dvars, kvars, tvars>>

\* lines 65-69: one component touches idx
ExtendComponent ==
    /\ InLoop
    /\ NumNeighborComponents = 1
    /\ Domain' = ExtendSetByID(Domain, NeighborComponents(data, Domain, CurrentIdx)[1],
                               CurrentIdx)
    /\ pos' = pos + 1
    /\ UNCHANGED <<data, level_sets, sorted_idx, extremum_points_and_persistence,
                   pc, filtered, Threshold>>
    /\ UNCHANGED <<ovars, mvars, avars, dvars, kvars, tvars>>

\* lines 72-82: a merge event in lower mode
MergeLower ==
    /\ InLoop
    /\ NumNeighborComponents >= 2
    /\ level_sets = "lower"
    /\ Domain' = MergeLowerUF(data, Domain, CurrentIdx)
    /\ extremum_points_and_persistence' =
           extremum_points_and_persistence \o MergeLowerEntries(data, Domain, CurrentIdx)
    /\ pos' = pos + 1
    /\ UNCHANGED <<data, level_sets, sorted_idx, pc, filtered, Threshold>>
    /\ UNCHANGED <<ovars, mvars, avars, dvars, kvars, tvars>>

\* lines 84-95: a merge event in upper mode
MergeUpper ==
    /\ InLoop
    /\ NumNeighborComponents >= 2
    /\ level_sets = "upper"
    /\ Domain' = MergeUpperUF(data, Domain, CurrentIdx)
    /\ extremum_points_and_persistence' =
           extremum_points_and_persistence \o MergeUpperEntries(data, Domain, CurrentIdx)
    /\ pos' = pos + 1
    /\ UNCHANGED <<data, level_sets, sorted_idx, pc, filtered, Threshold>>
    /\ UNCHANGED <<ovars, mvars, avars, dvars, kvars, tvars>>

LoopDone == pc = "sweep" /\ pos = Len(sorted_idx)

\* lines 97-103: append the global entry and return
GlobalExtremum ==
    /\ LoopDone
    /\ 0 \in DOMAIN Domain
    /\ extremum_points_and_persistence' =
           Append(extremum_points_and_persistence, GlobalEntry(Domain))
    /\ pc' = "returned"
    /\ UNCHANGED <<data, level_sets, sorted_idx, pos, Domain, filtered, Threshold>>
    /\ UNCHANGED <<ovars, mvars, avars, dvars, kvars, tvars>>

\* lines 99/101 on an empty signal: uf.Find(0) indexes an empty domain
FindOutOfRange ==
    /\ LoopDone
    /\ 0 \notin DOMAIN Domain
    /\ pc' = "IndexError"
    /\ UNCHANGED <<data, level_sets, sorted_idx, pos, Domain,
                   extremum_points_and_persistence, filtered, Threshold>>
    /\ UNCHANGED <<ovars, mvars, avars, dvars, kvars, tvars>>

\* lines 117-120, applied to the returned list or to an already filtered one
FilterInput == IF pc = "filtered" THEN filtered ELSE extremum_points_and_persistence
Filter ==
    /\ pc \in {"returned", "filtered"}
    /\ \E t \in Thresholds :
        /\ filtered' = FilterExtremumPointsByPersistence(FilterInput, t)
        /\ Threshold' = t
    /\ pc' = "filtered"
    /\ UNCHANGED <<data, level_sets, sorted_idx, pos, Domain,
                   extremum_points_and_persistence>>
    /\ UNCHANGED <<ovars, mvars, avars, dvars, kvars, tvars>>

(***************************************************************************)
(* The orchestrators.  Chromosomes are named by their position 1..n in     *)
(* f.chromosomes(); Unbound marks a Python local that was never assigned,  *)
(* SharedState the None that stands for "fetch from the shared state".     *)
(***************************************************************************)
Unbound == 0
SharedState == -1
ChromNames(cs) == 1..Len(cs)
ChromSets == UNION {[1..n -> 0..MaxSize] : n \in 1..MaxChroms}

\* others.chromosomes_to_study: the (index, name) pairs of the chromosomes
\* that meet the minimum size, in file order
RECURSIVE chromosomes_to_study(_, _, _)
chromosomes_to_study(names, bp_lengths, min_size) ==
    IF names = <<>> THEN <<>>
    ELSE LET n == Len(names)
             before == chromosomes_to_study(SubSeq(names, 1, n - 1), bp_lengths, min_size)
         IN  IF bp_lengths[names[n]] >= min_size
             THEN Append(before, <<names[n] - 1, names[n]>>)
             ELSE before

\* call._plan_tasks: one (name, size, skip) task per chromosome handed in
RECURSIVE PlanTasksOf(_, _, _)
PlanTasksOf(names, sizes, min_size) ==
    IF names = <<>> THEN <<>>
    ELSE LET n == Len(names)
         IN  Append(PlanTasksOf(SubSeq(names, 1, n - 1), sizes, min_size),
                    [name |-> names[n], size |-> sizes[names[n]],
                     skip |-> sizes[names[n]] < min_size])
AllNames(cs) == [k \in 1..Len(cs) |-> k]

\* mutant: the minimum size is not handed on
StudyPairs_NoMinimum(cs, min_size) == chromosomes_to_study(AllNames(cs), cs, 0)
\* call.py lines 49-51: the chromosomes call.run loops over
StudyPairs(cs, min_size) == chromosomes_to_study(AllNames(cs), cs, min_size)

\* callbacks.py line 332
GuiMinChromSize == 1
\* callbacks.py lines 444-451: one chromosome when a region is given, else all
GuiTasks(cs, region) ==
    IF region # 0 THEN PlanTasksOf(<<region>>, cs, GuiMinChromSize)
    ELSE PlanTasksOf(AllNames(cs), cs, GuiMinChromSize)
\* callbacks.py lines 458-459: `if skip: continue`
TaskIsSkipped(task) == task.skip

(***************************************************************************)
(* _where_to_start_calling_sequence.  A returned tuple is the sequence of  *)
(* its elements, the string "skip" the sequence of its characters, and the *)
(* bare False the empty sequence (the one value that `not ...` accepts).   *)
(***************************************************************************)
NumParams == 15
ParamIndices == 0..(NumParams - 1)
functions_list == <<"step1", "step2", "step3", "step4">>
BranchOf(index) ==
    IF index <= 4 THEN functions_list \o <<"True">>
    ELSE IF index <= 6 THEN functions_list \o <<"True">>
    ELSE IF index = 7 THEN SubSeq(functions_list, 2, 4) \o <<"True">>
    ELSE IF index = 8 THEN SubSeq(functions_list, 3, 4) \o <<"False">>
    ELSE IF index = 9 THEN SubSeq(functions_list, 3, 4) \o <<"False">>
    ELSE IF index <= 11 THEN SubSeq(functions_list, 4, 4) \o <<"False">>
    ELSE <<"s", "k", "i", "p">>
\* an index whose difference makes the loop return (index 14 matches no branch)
Returning(inp, st) == {i \in ParamIndices : inp[i] # st[i] /\ i <= 13}
where_to_start_calling_sequence(inp, st) ==
    IF Returning(inp, st) = {} THEN <<>>
    ELSE BranchOf(CHOOSE i \in Returning(inp, st) : \A j \in Returning(inp, st) : i <= j)

\* the last-used tuple, and the current tuples that differ from it in at most
\* MaxChanged places
state_params == [i \in ParamIndices |-> 0]
ChangedSets == {c \in SUBSET ParamIndices : Cardinality(c) <= MaxChanged}
InputParams == {[i \in ParamIndices |-> IF i \in c THEN 1 ELSE 0] : c \in ChangedSets}

(***************************************************************************)
(* Idle values: what a variable holds while its component is not running.  *)
(***************************************************************************)
PIdle ==
    /\ data = <<>>
    /\ level_sets = "lower"
    /\ sorted_idx = <<>>
    /\ pos = 0
    /\ Domain = <<>>
    /\ extremum_points_and_persistence = <<>>
    /\ pc = "idle"
    /\ filtered = <<>>
    /\ Threshold = 0
OIdle ==
    /\ entry = "none"
    /\ chroms = <<>>
    /\ min_chrom_size = 0
    /\ roi = FALSE
    /\ c_pairs = <<>>
    /\ cidx = 0
    /\ stage = 0
    /\ input_params = state_params
    /\ chrom_name = 0
    /\ functions_sequence = <<>>
    /\ tasks = <<>>
    /\ ti = 0
    /\ fi = 0
    /\ lt_matrix = Unbound
    /\ result = Unbound
    /\ steps_run = {}
    /\ written = {}
    /\ opc = "idle"

(***************************************************************************)
(* call.run (stripepy/cli/call.py).                                        *)
(***************************************************************************)
OInit ==
    /\ entry \in {"cli", "gui"}
    /\ chroms \in ChromSets
    /\ min_chrom_size \in (IF entry = "cli" THEN 0..(MaxSize + 1) ELSE {GuiMinChromSize})
    /\ roi \in (IF entry = "cli" THEN BOOLEAN ELSE {FALSE})
    /\ c_pairs = <<>>
    /\ cidx = 0
    /\ stage = 0
    /\ input_params \in (IF entry = "gui" THEN InputParams ELSE {state_params})
    /\ chrom_name \in (IF entry = "gui" THEN {0} \cup ChromNames(chroms) ELSE {0})
    /\ functions_sequence = <<>>
    /\ tasks = <<>>
    /\ ti = 0
    /\ fi = 0
    /\ lt_matrix = Unbound
    /\ result = Unbound
    /\ steps_run = {}
    /\ written = {}
    /\ opc = "call"

\* lines 37-63: load, plan the chromosomes, open the result file and the pool
RunPlan ==
    /\ entry = "cli" /\ opc = "call"
    /\ c_pairs' = StudyPairs(chroms, min_chrom_size)
    /\ cidx' = 0
    /\ stage' = 0
    /\ opc' = "loop"
    /\ UNCHANGED <<entry, chroms, min_chrom_size, roi, input_params, chrom_name,
                   functions_sequence, tasks, ti, fi, lt_matrix, result, steps_run,
                   written>>
    /\ UNCHANGED <<pvars, mvars, avars, dvars, kvars, tvars>>

InRunLoop == entry = "cli" /\ opc = "loop" /\ cidx < Len(c_pairs)
this_chr == c_pairs[cidx + 1][2]

\* lines 66-92: fetch the matrix and run step 1
RunStep1 ==
    /\ InRunLoop /\ stage = 0
    /\ steps_run' = steps_run \cup {<<this_chr, 1>>}
    /\ lt_matrix' = this_chr
    /\ stage' = 1
    /\ UNCHANGED <<entry, chroms, min_chrom_size, roi, c_pairs, cidx, input_params,
                   chrom_name, functions_sequence, tasks, ti, fi, result, written, opc>>
    /\ UNCHANGED <<pvars, mvars, avars, dvars, kvars, tvars>>

\* lines 102-115: step 2 on the matrices of step 1
RunStep2 ==
    /\ InRunLoop /\ stage = 1
    /\ steps_run' = steps_run \cup {<<this_chr, 2>>}
    /\ result' = lt_matrix
    /\ stage' = 2
    /\ UNCHANGED <<entry, chroms, min_chrom_size, roi, c_pairs, cidx, input_params,
                   chrom_name, functions_sequence, tasks, ti, fi, lt_matrix, written, opc>>
    /\ UNCHANGED <<pvars, mvars, avars, dvars, kvars, tvars>>

\* lines 117-131 and 133-142: steps 3 and 4 rebind result from result
RunStep3 ==
    /\ InRunLoop /\ stage = 2
    /\ steps_run' = steps_run \cup {<<this_chr, 3>>}
    /\ stage' = 3
    /\ UNCHANGED <<entry, chroms, min_chrom_size, roi, c_pairs, cidx, input_params,
                   chrom_name, functions_sequence, tasks, ti, fi, lt_matrix, result,
                   written, opc>>
    /\ UNCHANGED <<pvars, mvars, avars, dvars, kvars, tvars>>
RunStep4 ==
    /\ InRunLoop /\ stage = 3
    /\ steps_run' = steps_run \cup {<<this_chr, 4>>}
    /\ stage' = 4
    /\ UNCHANGED <<entry, chroms, min_chrom_size, roi, c_pairs, cidx, input_params,
                   chrom_name, functions_sequence, tasks, ti, fi, lt_matrix, result,
                   written, opc>>
    /\ UNCHANGED <<pvars, mvars, avars, dvars, kvars, tvars>>

\* lines 144-164: the plots, only with a region of interest
RunStep5 ==
    /\ InRunLoop /\ stage = 4 /\ roi
    /\ steps_run' = steps_run \cup {<<this_chr, 5>>}
    /\ stage' = 5
    /\ UNCHANGED <<entry, chroms, min_chrom_size, roi, c_pairs, cidx, input_params,
                   chrom_name, functions_sequence, tasks, ti, fi, lt_matrix, result,
                   written, opc>>
    /\ UNCHANGED <<pvars, mvars, avars, dvars, kvars, tvars>>

\* mutant: the result is written once step 3 is done
RunWrite_BeforeStep4 ==
    /\ InRunLoop
    /\ stage >= 3
    /\ written' = written \cup {result}
    /\ cidx' = cidx + 1
    /\ stage' = 0
    /\ UNCHANGED <<entry, chroms, min_chrom_size, roi, c_pairs, input_params,
                   chrom_name, functions_sequence, tasks, ti, fi, lt_matrix, result,
                   steps_run, opc>>
    /\ UNCHANGED <<pvars, mvars, avars, dvars, kvars, tvars>>
\* lines 166-169: write the chromosome's result, go to the next chromosome
RunWrite ==
    /\ InRunLoop
    /\ (stage = 4 /\ ~roi) \/ stage = 5
    /\ written' = written \cup {result}
    /\ cidx' = cidx + 1
    /\ stage' = 0
    /\ UNCHANGED <<entry, chroms, min_chrom_size, roi, c_pairs, input_params,
                   chrom_name, functions_sequence, tasks, ti, fi, lt_matrix, result,
                   steps_run, opc>>
    /\ UNCHANGED <<pvars, mvars, avars, dvars, kvars, tvars>>

\* a stage raises: nothing in run catches it, the loop and the run end
RunStageRaises ==
    /\ InRunLoop /\ stage <= 3
    /\ steps_run' = steps_run \cup {<<this_chr, stage + 1>>}
    /\ opc' = "raised"
    /\ UNCHANGED <<entry, chroms, min_chrom_size, roi, c_pairs, cidx, stage,
                   input_params, chrom_name, functions_sequence, tasks, ti, fi,
                   lt_matrix, result, written>>
    /\ UNCHANGED <<pvars, mvars, avars, dvars, kvars, tvars>>

\* line 171: the loop is exhausted
RunReturn ==
    /\ entry = "cli" /\ opc = "loop" /\ cidx = Len(c_pairs)
    /\ opc' = "returned"
    /\ UNCHANGED <<entry, chroms, min_chrom_size, roi, c_pairs, cidx, stage,
                   input_params, chrom_name, functions_sequence, tasks, ti, fi,
                   lt_matrix, result, steps_run, written>>
    /\ UNCHANGED <<pvars, mvars, avars, dvars, kvars, tvars>>

(***************************************************************************)
(* call_stripes_callback (stripepy/dash_gui/callbacks.py).                 *)
(***************************************************************************)
\* lines 330-451: pick the functions to run; return early when nothing
\* changed, else plan the tasks
GuiPlan ==
    /\ entry = "gui" /\ opc = "call"
    /\ functions_sequence' = where_to_start_calling_sequence(input_params, state_params)
    /\ IF functions_sequence' = <<>>
       THEN /\ opc' = "stale"
            /\ tasks' = <<>>
       ELSE /\ opc' = "loop"
            /\ tasks' = GuiTasks(chroms, chrom_name)
    /\ ti' = 0
    /\ fi' = 0
    /\ UNCHANGED <<entry, chroms, min_chrom_size, roi, c_pairs, cidx, stage,
                   input_params, chrom_name, lt_matrix, result, steps_run, written>>
    /\ UNCHANGED <<pvars, mvars, avars, dvars, kvars, tvars>>

InGuiLoop == entry = "gui" /\ opc = "loop" /\ ti < Len(tasks)
task == tasks[ti + 1]
\* the for loop over functions_sequence is at element `function`
AtFunction == InGuiLoop /\ ~TaskIsSkipped(task) /\ fi < Len(functions_sequence)
function == functions_sequence[fi + 1]

\* lines 458-459: a skipped task runs nothing
GuiSkipTask ==
    /\ InGuiLoop /\ fi = 0
    /\ TaskIsSkipped(task)
    /\ ti' = ti + 1
    /\ UNCHANGED <<entry, chroms, min_chrom_size, roi, c_pairs, cidx, stage,
                   input_params, chrom_name, functions_sequence, tasks, fi, lt_matrix,
                   result, steps_run, written, opc>>
    /\ UNCHANGED <<pvars, mvars, avars, dvars, kvars, tvars>>

\* lines 461-462: the trailing boolean ends the task
GuiBreak ==
    /\ AtFunction
    /\ function \in {"True", "False"}
    /\ ti' = ti + 1
    /\ fi' = 0
    /\ UNCHANGED <<entry, chroms, min_chrom_size, roi, c_pairs, cidx, stage,
                   input_params, chrom_name, functions_sequence, tasks, lt_matrix,
                   result, steps_run, written, opc>>
    /\ UNCHANGED <<pvars, mvars, avars, dvars, kvars, tvars>>

\* lines 463-480: step 1 binds the matrices: None when the pool already
\* shares them, else the matrices fetched for this task
GuiStep1 ==
    /\ AtFunction
    /\ function = "step1"
    /\ \E pool_ready \in BOOLEAN :
           lt_matrix' = IF pool_ready THEN SharedState ELSE task.name
    /\ steps_run' = steps_run \cup {<<task.name, 1>>}
    /\ fi' = fi + 1
    /\ UNCHANGED <<entry, chroms, min_chrom_size, roi, c_pairs, cidx, stage,
                   input_params, chrom_name, functions_sequence, tasks, ti, result,
                   written, opc>>
    /\ UNCHANGED <<pvars, mvars, avars, dvars, kvars, tvars>>

\* lines 481-488: step 2 reads the matrices and binds result
GuiStep2 ==
    /\ AtFunction
    /\ function = "step2"
    /\ lt_matrix # Unbound
    /\ result' = task.name
    /\ steps_run' = steps_run \cup {<<task.name, 2>>}
    /\ fi' = fi + 1
    /\ UNCHANGED <<entry, chroms, min_chrom_size, roi, c_pairs, cidx, stage,
                   input_params, chrom_name, functions_sequence, tasks, ti, lt_matrix,
                   written, opc>>
    /\ UNCHANGED <<pvars, mvars, avars, dvars, kvars, tvars>>

\* lines 489-522 and 523-560: steps 3 and 4 read result and the matrices
GuiStep3 ==
    /\ AtFunction
    /\ function = "step3"
    /\ lt_matrix # Unbound /\ result # Unbound
    /\ steps_run' = steps_run \cup {<<task.name, 3>>}
    /\ fi' = fi + 1
    /\ UNCHANGED <<entry, chroms, min_chrom_size, roi, c_pairs, cidx, stage,
                   input_params, chrom_name, functions_sequence, tasks, ti, lt_matrix,
                   result, written, opc>>
    /\ UNCHANGED <<pvars, mvars, avars, dvars, kvars, tvars>>
GuiStep4 ==
    /\ AtFunction
    /\ function = "step4"
    /\ lt_matrix # Unbound /\ result # Unbound
    /\ steps_run' = steps_run \cup {<<task.name, 4>>}
    /\ fi' = fi + 1
    /\ UNCHANGED <<entry, chroms, min_chrom_size, roi, c_pairs, cidx, stage,
                   input_params, chrom_name, functions_sequence, tasks, ti, lt_matrix,
                   result, written, opc>>
    /\ UNCHANGED <<pvars, mvars, avars, dvars, kvars, tvars>>

\* lines 483-485, 495-498, 529-530: building params reads a local that no
\* earlier function of the sequence has assigned
GuiUnboundLocal ==
    /\ AtFunction
    /\ \/ function = "step2" /\ lt_matrix = Unbound
       \/ function \in {"step3", "step4"} /\ (lt_matrix = Unbound \/ result = Unbound)
    /\ opc' = "UnboundLocalError"
    /\ UNCHANGED <<entry, chroms, min_chrom_size, roi, c_pairs, cidx, stage,
                   input_params, chrom_name, functions_sequence, tasks, ti, fi,
                   lt_matrix, result, steps_run, written>>
    /\ UNCHANGED <<pvars, mvars, avars, dvars, kvars, tvars>>

\* lines 460-535: an element that is neither a boolean nor one of the four
\* functions (a character of "skip") matches no branch
GuiNoMatch ==
    /\ AtFunction
    /\ function \notin {"True", "False", "step1", "step2", "step3", "step4"}
    /\ fi' = fi + 1
    /\ UNCHANGED <<entry, chroms, min_chrom_size, roi, c_pairs, cidx, stage,
                   input_params, chrom_name, functions_sequence, tasks, ti, lt_matrix,
                   result, steps_run, written, opc>>
    /\ UNCHANGED <<pvars, mvars, avars, dvars, kvars, tvars>>

\* line 460: the for loop over functions_sequence is exhausted
GuiNextTask ==
    /\ InGuiLoop /\ ~TaskIsSkipped(task) /\ fi = Len(functions_sequence)
    /\ ti' = ti + 1
    /\ fi' = 0
    /\ UNCHANGED <<entry, chroms, min_chrom_size, roi, c_pairs, cidx, stage,
                   input_params, chrom_name, functions_sequence, tasks, lt_matrix,
                   result, steps_run, written, opc>>
    /\ UNCHANGED <<pvars, mvars, avars, dvars, kvars, tvars>>

\* lines 561-601: all tasks iterated
GuiReturn ==
    /\ entry = "gui" /\ opc = "loop" /\ ti = Len(tasks)
    /\ opc' = "returned"
    /\ UNCHANGED <<entry, chroms, min_chrom_size, roi, c_pairs, cidx, stage,
                   input_params, chrom_name, functions_sequence, tasks, ti, fi,
                   lt_matrix, result, steps_run, written>>
    /\ UNCHANGED <<pvars, mvars, avars, dvars, kvars, tvars>>

(***************************************************************************)
(* Specifications: the persistence engine, and the orchestrators.          *)
(***************************************************************************)
(***************************************************************************)
(* Step 3 (stripepy.step_3) with the caller's map.  Each seed is shaped    *)
(* by a function of that seed and of read-only matrices alone; the map     *)
(* applies it to the seeds and step 3 collects what the map returns.       *)
(***************************************************************************)
NoPool == 0
SeedLoci == 0..MaxSeed
SeedSeqs == UNION {[1..n -> SeedLoci] : n \in 0..MaxSeeds}
Workers == 1..MaxProc
\* the per-seed computation: the stripe grown from one seed
Shape(seed) == [seed |-> seed, width |-> (2 * seed + 1) % 3, height |-> (seed + 2) % 4]
\* the built-in map: the function applied to the items front to back
RECURSIVE BuiltinMap(_)
BuiltinMap(items) ==
    IF items = <<>> THEN <<>>
    ELSE <<Shape(Head(items))>> \o BuiltinMap(Tail(items))
\* call.py:60-63: a pool only when more than one process is asked for
PoolFor(n) == IF n > 1 THEN n ELSE NoPool
\* call.py:129: the map handed to step 3
MapFor(p) == IF p # NoPool THEN "pool.map" ELSE "map"
\* mutant: the values in the order in which the workers completed them
PoolMapResult_CompletionOrder(done, order) == [k \in 1..Len(order) |-> done[order[k]]]
\* pool.map returns the values in the order of the items
PoolMapResult(done, order) == [k \in 1..Len(order) |-> done[k]]

MIdle ==
    /\ seeds = <<>>
    /\ nproc = 1
    /\ pool = NoPool
    /\ next_task = 0
    /\ running = [w \in Workers |-> 0]
    /\ finished = <<>>
    /\ completion = <<>>
    /\ stripes = <<>>
    /\ mpc = "idle"

MInit ==
    /\ seeds \in SeedSeqs
    /\ nproc \in 1..MaxProc
    /\ pool = NoPool
    /\ next_task = 0
    /\ running = [w \in Workers |-> 0]
    /\ finished = <<>>
    /\ completion = <<>>
    /\ stripes = <<>>
    /\ mpc = "call"

\* call.py:59-63
CreatePool ==
    /\ mpc = "call"
    /\ pool' = PoolFor(nproc)
    /\ mpc' = "step_3"
    /\ UNCHANGED <<seeds, nproc, next_task, running, finished, completion, stripes>>
    /\ UNCHANGED <<pvars, ovars, avars, dvars, kvars, tvars>>

\* call.py:120-130 with map = map: one seed after the other, in order
Step3BuiltinMap ==
    /\ mpc = "step_3"
    /\ MapFor(pool) = "map"
    /\ stripes' = BuiltinMap(seeds)
    /\ mpc' = "returned"
    /\ UNCHANGED <<seeds, nproc, pool, next_task, running, finished, completion>>
    /\ UNCHANGED <<pvars, ovars, avars, dvars, kvars, tvars>>

\* call.py:120-130 with map = pool.map: an idle worker takes the next item
PoolDispatch ==
    /\ mpc = "step_3"
    /\ MapFor(pool) = "pool.map"
    /\ next_task < Len(seeds)
    /\ \E w \in 1..pool :
        /\ running[w] = 0
        /\ running' = [running EXCEPT ![w] = next_task + 1]
    /\ next_task' = next_task + 1
    /\ UNCHANGED <<seeds, nproc, pool, finished, completion, stripes, mpc>>
    /\ UNCHANGED <<pvars, ovars, avars, dvars, kvars, tvars>>

\* a worker completes its item, whatever the other workers are doing
PoolComplete ==
    /\ mpc = "step_3"
    /\ \E w \in 1..pool :
        /\ running[w] # 0
        /\ finished' = [k \in (DOMAIN finished) \cup {running[w]} |->
                            IF k = running[w] THEN Shape(seeds[k]) ELSE finished[k]]
        /\ completion' = Append(completion, running[w])
        /\ running' = [running EXCEPT ![w] = 0]
    /\ UNCHANGED <<seeds, nproc, pool, next_task, stripes, mpc>>
    /\ UNCHANGED <<pvars, ovars, avars, dvars, kvars, tvars>>

\* pool.map returns once every item is completed
PoolReturn ==
    /\ mpc = "step_3"
    /\ MapFor(pool) = "pool.map"
    /\ Len(completion) = Len(seeds)
    /\ stripes' = PoolMapResult(finished, completion)
    /\ mpc' = "returned"
    /\ UNCHANGED <<seeds, nproc, pool, next_task, running, finished, completion>>
    /\ UNCHANGED <<pvars, ovars, avars, dvars, kvars, tvars>>

(***************************************************************************)
(* setup.parse_args for `call`.  An option value is a token: absent, a     *)
(* text that is no number, "nan", or a number; the number of a probability *)
(* option is num / ProbDenominator, that of --max-width is num itself.     *)
(***************************************************************************)
Absent == [kind |-> "absent", num |-> 0]
Text == [kind |-> "text", num |-> 0]
NaN == [kind |-> "nan", num |-> 0]
Num(k) == [kind |-> "num", num |-> k]
ProbTokens == {Absent, Text, NaN} \cup {Num(k) : k \in (0 - 1)..MaxNumerator}
IntTokens == {Absent, Text} \cup {Num(k) : k \in (0 - 1)..MaxWidthArg}
RoiChoices == {"middle", "start"}
PathKinds == {"missing", "file", "empty_dir", "nonempty_dir"}
NoError == [kind |-> "none", collisions |-> <<>>]
NoArgs == [subcommand |-> "none"]

\* mutant: the interval is open
probability_OpenInterval(tok) ==
    IF tok.kind = "text" THEN "ValueError"
    ELSE IF tok.kind = "num" /\ 0 < tok.num /\ tok.num < ProbDenominator THEN "ok"
    ELSE "ArgumentTypeError"
\* _probability: float(arg) raises on a text; nan fails both comparisons
probability(tok) ==
    IF tok.kind = "text" THEN "ValueError"
    ELSE IF tok.kind = "num" /\ 0 <= tok.num /\ tok.num <= ProbDenominator THEN "ok"
    ELSE "ArgumentTypeError"
\* type=int of --max-width: int(arg) raises on a text, takes every integer
int(tok) == IF tok.kind = "num" THEN "ok" ELSE "ValueError"
\* argparse converts an option only when it is on the command line
Converts(type_result, tok) == tok.kind = "absent" \/ type_result = "ok"
TypesAccept(c) ==
    /\ Converts(int(c.max_width), c.max_width)
    /\ Converts(probability(c.glob_pers_min), c.glob_pers_min)
    /\ Converts(probability(c.loc_pers_min), c.loc_pers_min)
    /\ Converts(probability(c.loc_trend_min), c.loc_trend_min)
\* the value an option has in the namespace: the converted one or the default
ValueOf(tok) == IF tok.kind = "absent" THEN [kind |-> "default", num |-> 0] ELSE tok
PathOf(given) == IF given THEN "path" ELSE "None"
Namespace(c) ==
    [subcommand |-> "call",
     roi |-> c.roi,
     output_file |-> PathOf(c.output_file),
     log_file |-> PathOf(c.log_file),
     plot_dir |-> PathOf(c.plot_dir),
     max_width |-> ValueOf(c.max_width),
     glob_pers_min |-> ValueOf(c.glob_pers_min),
     loc_pers_min |-> ValueOf(c.loc_pers_min),
     loc_trend_min |-> ValueOf(c.loc_trend_min),
     force |-> c.force]
\* the options of `call` that have no default and are None when absent
NoneKeys(a) == {k \in {"roi", "output_file", "log_file", "plot_dir"} : a[k] = "None"}
normalize_args(a) == [k \in (DOMAIN a) \ NoneKeys(a) |-> a[k]]
define_default_args(a) ==
    IF "output_file" \in DOMAIN a THEN a
    ELSE [k \in (DOMAIN a) \cup {"output_file"} |->
              IF k = "output_file" THEN "inferred" ELSE a[k]]
\* mutant: the requirement is checked only when --force is not given
RoiWithoutPlotDir_UnlessForce(a) ==
    "roi" \in DOMAIN a /\ "plot_dir" \notin DOMAIN a /\ ~a.force
\* line 542
RoiWithoutPlotDir(a) == "roi" \in DOMAIN a /\ "plot_dir" \notin DOMAIN a
\* mutant: the log file is not looked at
path_collisions_NoLogFile(a, f) ==
    (IF f.output_file THEN <<"output_file">> ELSE <<>>)
    \o (IF "plot_dir" \in DOMAIN a /\ f.plot_dir = "file" THEN <<"plot_dir is a file">>
        ELSE IF "plot_dir" \in DOMAIN a /\ f.plot_dir = "nonempty_dir"
        THEN <<"plot_dir is not empty">>
        ELSE <<>>)
\* lines 546-559
path_collisions(a, f) ==
    (IF f.output_file THEN <<"output_file">> ELSE <<>>)
    \o (IF "log_file" \in DOMAIN a /\ f.log_file THEN <<"log_file">> ELSE <<>>)
    \o (IF "plot_dir" \in DOMAIN a /\ f.plot_dir = "file" THEN <<"plot_dir is a file">>
        ELSE IF "plot_dir" \in DOMAIN a /\ f.plot_dir = "nonempty_dir"
        THEN <<"plot_dir is not empty">>
        ELSE <<>>)

AIdle ==
    /\ cli_args = NoArgs
    /\ fs = NoArgs
    /\ args = NoArgs
    /\ error = NoError
    /\ apc = "idle"

\* command lines that vary the typed options, with no path option and nothing
\* on disk, or vary the path options and the disk, with the typed options absent
TypedCommandLines ==
    [glob_pers_min : ProbTokens, loc_pers_min : ProbTokens, loc_trend_min : ProbTokens,
     max_width : IntTokens, roi : {"None"}, output_file : {FALSE}, log_file : {FALSE},
     plot_dir : {FALSE}, force : {FALSE}]
PathCommandLines ==
    [glob_pers_min : {Absent}, loc_pers_min : {Absent}, loc_trend_min : {Absent},
     max_width : {Absent}, roi : RoiChoices \cup {"None"}, output_file : BOOLEAN,
     log_file : BOOLEAN, plot_dir : BOOLEAN, force : BOOLEAN]
FileSystems == [output_file : BOOLEAN, log_file : BOOLEAN, plot_dir : PathKinds]
EmptyFileSystem == [output_file |-> FALSE, log_file |-> FALSE, plot_dir |-> "missing"]

AInit ==
    /\ \/ cli_args \in TypedCommandLines /\ fs = EmptyFileSystem
       \/ cli_args \in PathCommandLines /\ fs \in FileSystems
    /\ args = NoArgs
    /\ error = NoError
    /\ apc = "call"

\* line 582, parser.parse_args: a type function raised
ArgparseError ==
    /\ apc = "call"
    /\ ~TypesAccept(cli_args)
    /\ error' = [kind |-> "argument", collisions |-> <<>>]
    /\ apc' = "error"
    /\ UNCHANGED <<cli_args, fs, args>>
    /\ UNCHANGED <<pvars, ovars, mvars, dvars, kvars, tvars>>

\* line 582, parser.parse_args: the namespace
ArgparseParse ==
    /\ apc = "call"
    /\ TypesAccept(cli_args)
    /\ args' = Namespace(cli_args)
    /\ apc' = "parsed"
    /\ UNCHANGED <<cli_args, fs, error>>
    /\ UNCHANGED <<pvars, ovars, mvars, dvars, kvars, tvars>>

\* line 583
NormalizeArgs ==
    /\ apc = "parsed"
    /\ args' = normalize_args(args)
    /\ apc' = "normalized"
    /\ UNCHANGED <<cli_args, fs, error>>
    /\ UNCHANGED <<pvars, ovars, mvars, dvars, kvars, tvars>>

\* line 584
DefineDefaultArgs ==
    /\ apc = "normalized"
    /\ args' = define_default_args(args)
    /\ apc' = "defaulted"
    /\ UNCHANGED <<cli_args, fs, error>>
    /\ UNCHANGED <<pvars, ovars, mvars, dvars, kvars, tvars>>

\* lines 542-543
ValidateRoiError ==
    /\ apc = "defaulted"
    /\ RoiWithoutPlotDir(args)
    /\ error' = [kind |-> "--plot-dir is required", collisions |-> <<>>]
    /\ apc' = "error"
    /\ UNCHANGED <<cli_args, fs, args>>
    /\ UNCHANGED <<pvars, ovars, mvars, dvars, kvars, tvars>>

\* lines 545-570: without --force a collision is an error naming all of them
ValidateCollisionError ==
    /\ apc = "defaulted"
    /\ ~RoiWithoutPlotDir(args)
    /\ ~args.force
    /\ Len(path_collisions(args, fs)) >= 1
    /\ error' = [kind |-> "path collision", collisions |-> path_collisions(args, fs)]
    /\ apc' = "error"
    /\ UNCHANGED <<cli_args, fs, args>>
    /\ UNCHANGED <<pvars, ovars, mvars, dvars, kvars, tvars>>

\* lines 585-589: validation passes, parse_args returns the arguments
ValidateReturn ==
    /\ apc = "defaulted"
    /\ ~RoiWithoutPlotDir(args)
    /\ args.force \/ Len(path_collisions(args, fs)) = 0
    /\ apc' = "returned"
    /\ UNCHANGED <<cli_args, fs, args, error>>
    /\ UNCHANGED <<pvars, ovars, mvars, dvars, kvars, tvars>>

(***************************************************************************)
(* DiversifyExtremumPointsAndPersistence (lines 106-114), applied to the   *)
(* list run_persistence returned or to a filtered one.  Such a list is    *)
(* never empty: it holds at least the global entry.                        *)
(***************************************************************************)
\* x[::2] and x[1::2]
EvenPositions(x) == [k \in 1..((Len(x) + 1) \div 2) |-> x[2 * k - 1]]
OddPositions(x) == [k \in 1..(Len(x) \div 2) |-> x[2 * k]]
\* x[:-1] and x[-1]
AllButLast(x) == SubSeq(x, 1, Len(x) - 1)
Last(x) == x[Len(x)]
DiversifyMinima(x, level_set) ==
    IF level_set = "upper" THEN AllButLast(EvenPositions(x)) ELSE EvenPositions(x)
\* mutant: the last entry of the minima is not moved for "upper"
DiversifyMaxima_NotMoved(x, level_set) == OddPositions(x)
DiversifyMaxima(x, level_set) ==
    IF level_set = "upper" THEN Append(OddPositions(x), Last(EvenPositions(x)))
    ELSE OddPositions(x)

DIdle ==
    /\ ExtremumPointsAndPersistence = <<>>
    /\ MinimumPointsAndPersistence = <<>>
    /\ MaximumPointsAndPersistence = <<>>

Diversify ==
    /\ pc \in {"returned", "filtered"}
    /\ ExtremumPointsAndPersistence' = FilterInput
    /\ MinimumPointsAndPersistence' = DiversifyMinima(FilterInput, level_sets)
    /\ MaximumPointsAndPersistence' = DiversifyMaxima(FilterInput, level_sets)
    /\ pc' = "diversified"
    /\ UNCHANGED <<data, level_sets, sorted_idx, pos, Domain,
                   extremum_points_and_persistence, filtered, Threshold>>
    /\ UNCHANGED <<ovars, mvars, avars, kvars, tvars>>
(***************************************************************************)
(* _pick_closest (callbacks.py:76-89).  A returned value is Some(v); a     *)
(* loop that ends without a return makes the function return None.         *)
(***************************************************************************)
Some(v) == [none |-> FALSE, val |-> v]
None == [none |-> TRUE, val |-> 0]
Abs(n) == IF n < 0 THEN 0 - n ELSE n
\* the strictly ascending lists of the resolutions in S
Ascending(S) == [k \in 1..Cardinality(S) |-> CHOOSE v \in S : Cardinality({u \in S : u < v}) = k - 1]
ResolutionLists == {Ascending(S) : S \in (SUBSET (1..MaxRes)) \ {{}}}
Targets == 0..(MaxRes + 1)
\* lines 83-87
CloserOf(last, head, target) ==
    IF Abs(last - target) < Abs(head - target) THEN last ELSE head
\* lines 80-89: the loop from position k on, with `last` as it stands
RECURSIVE PickFrom(_, _, _, _)
PickFrom(arr, target, k, last) ==
    IF k > Len(arr) THEN None
    ELSE LET head == arr[k]
         IN  IF last < target /\ head > target THEN Some(CloserOf(last, head, target))
             ELSE PickFrom(arr, target, k + 1, head)
pick_closest(arr, target) ==
    IF target \in {arr[k] : k \in 1..Len(arr)} THEN Some(target)
    ELSE PickFrom(arr, target, 1, arr[1])

KIdle ==
    /\ array = <<>>
    /\ target_res = 0
    /\ closest = None
    /\ kpc = "idle"

KInit ==
    /\ array \in ResolutionLists
    /\ target_res \in Targets
    /\ closest = None
    /\ kpc = "call"

\* a return statement of lines 78, 85 or 87 is reached
PickClosestReturns ==
    /\ kpc = "call"
    /\ ~pick_closest(array, target_res).none
    /\ closest' = pick_closest(array, target_res)
    /\ kpc' = "returned"
    /\ UNCHANGED <<array, target_res>>
    /\ UNCHANGED <<pvars, ovars, mvars, avars, dvars, tvars>>

\* the loop of line 81 ends and the function falls off its end
PickClosestFallsThrough ==
    /\ kpc = "call"
    /\ pick_closest(array, target_res).none
    /\ closest' = None
    /\ kpc' = "returned"
    /\ UNCHANGED <<array, target_res>>
    /\ UNCHANGED <<pvars, ovars, mvars, avars, dvars, tvars>>
(***************************************************************************)
(* _trim_list (axes.py:61-71), one action per loop iteration.  picked      *)
(* records the position each element of trimmed_list was taken from.       *)
(***************************************************************************)
Ticks == 0..MaxTick
TickLists == UNION {[1..n -> Ticks] : n \in 1..MaxListLen}
\* math.ceil(a / b) for positive integers
CeilDiv(a, b) == (a + b - 1) \div b

TIdle ==
    /\ list_long = <<>>
    /\ max_number = 2
    /\ step_size = 0
    /\ loop_i = 0
    /\ trimmed_list = <<>>
    /\ picked = <<>>
    /\ tpc = "idle"

TInit ==
    /\ list_long \in TickLists
    /\ max_number \in 2..MaxNumber
    /\ step_size = 0
    /\ loop_i = 0
    /\ trimmed_list = <<>>
    /\ picked = <<>>
    /\ tpc = "call"

\* lines 62-67
TrimSetup ==
    /\ tpc = "call"
    /\ step_size' = CeilDiv(Len(list_long), max_number - 1)
    /\ loop_i' = 0
    /\ trimmed_list' = <<>>
    /\ picked' = <<>>
    /\ tpc' = "loop"
    /\ UNCHANGED <<list_long, max_number>>
    /\ UNCHANGED <<pvars, ovars, mvars, avars, dvars, kvars>>

\* lines 68-69: one iteration of the loop
TrimPick ==
    /\ tpc = "loop"
    /\ loop_i < Len(list_long)
    /\ trimmed_list' = Append(trimmed_list, At(list_long, loop_i))
    /\ picked' = Append(picked, loop_i)
    /\ loop_i' = loop_i + step_size
    /\ UNCHANGED <<list_long, max_number, step_size, tpc>>
    /\ UNCHANGED <<pvars, ovars, mvars, avars, dvars, kvars>>

\* lines 70-71: the last element is appended and the list returned
TrimAppendLast ==
    /\ tpc = "loop"
    /\ loop_i >= Len(list_long)
    /\ trimmed_list' = Append(trimmed_list, At(list_long, Len(list_long) - 1))
    /\ picked' = Append(picked, Len(list_long) - 1)
    /\ tpc' = "returned"
    /\ UNCHANGED <<list_long, max_number, step_size, loop_i>>
    /\ UNCHANGED <<pvars, ovars, mvars, avars, dvars, kvars>>
Init == PInit /\ OIdle /\ MIdle /\ AIdle /\ DIdle /\ KIdle /\ TIdle
Next ==
    \/ Setup
    \/ NewComponent
    \/ ExtendComponent
    \/ MergeLower
    \/ MergeUpper
    \/ GlobalExtremum
    \/ FindOutOfRange
    \/ Filter
    \/ Diversify
Spec == Init /\ [][Next]_vars

InitOrch == OInit /\ PIdle /\ MIdle /\ AIdle /\ DIdle /\ KIdle /\ TIdle
NextOrch ==
    \/ RunPlan
    \/ RunStep1
    \/ RunStep2
    \/ RunStep3
    \/ RunStep4
    \/ RunStep5
    \/ RunWrite
    \/ RunStageRaises
    \/ RunReturn
    \/ GuiPlan
    \/ GuiSkipTask
    \/ GuiBreak
    \/ GuiStep1
    \/ GuiStep2
    \/ GuiStep3
    \/ GuiStep4
    \/ GuiUnboundLocal
    \/ GuiNoMatch
    \/ GuiNextTask
    \/ GuiReturn
SpecOrch == InitOrch /\ [][NextOrch]_vars

InitStep3 == MInit /\ PIdle /\ OIdle /\ AIdle /\ DIdle /\ KIdle /\ TIdle
NextStep3 ==
    \/ CreatePool
    \/ Step3BuiltinMap
    \/ PoolDispatch
    \/ PoolComplete
    \/ PoolReturn
SpecStep3 == InitStep3 /\ [][NextStep3]_vars

InitArgs == AInit /\ PIdle /\ OIdle /\ MIdle /\ DIdle /\ KIdle /\ TIdle
NextArgs ==
    \/ ArgparseError
    \/ ArgparseParse
    \/ NormalizeArgs
    \/ DefineDefaultArgs
    \/ ValidateRoiError
    \/ ValidateCollisionError
    \/ ValidateReturn
SpecArgs == InitArgs /\ [][NextArgs]_vars

InitPick == KInit /\ PIdle /\ OIdle /\ MIdle /\ AIdle /\ DIdle /\ TIdle
NextPick ==
    \/ PickClosestReturns
    \/ PickClosestFallsThrough
SpecPick == InitPick /\ [][NextPick]_vars

InitTrim == TInit /\ PIdle /\ OIdle /\ MIdle /\ AIdle /\ DIdle /\ KIdle
NextTrim ==
    \/ TrimSetup
    \/ TrimPick
    \/ TrimAppendLast
SpecTrim == InitTrim /\ [][NextTrim]_vars

(***************************************************************************)
(* Vocabulary of the properties.                                           *)
(***************************************************************************)
N == NumElements(data)
out == extremum_points_and_persistence
HasReturned == pc \in {"returned", "filtered"}
IsOdd(n) == n % 2 = 1
IsEven(n) == n % 2 = 0
\* i is processed before j: by value, ties by index (reversed for "upper")
Precedes(d, m, i, j) ==
    IF m = "lower" THEN d[i] < d[j] \/ (d[i] = d[j] /\ i < j)
    ELSE d[i] > d[j] \/ (d[i] = d[j] /\ i > j)
\* the interior indices that are processed after both of their neighbours
MergeIndices(d, m) ==
    {i \in DOMAIN d : /\ i - 1 \in DOMAIN d
                      /\ i + 1 \in DOMAIN d
                      /\ Precedes(d, m, i - 1, i)
                      /\ Precedes(d, m, i + 1, i)}
IsGlobalMin(d, i) == \A j \in DOMAIN d : d[i] <= d[j]
IsGlobalMax(d, i) == \A j \in DOMAIN d : d[i] >= d[j]
IsLocalMin(d, i) == \A j \in {i - 1, i + 1} \cap DOMAIN d : d[i] <= d[j]
IsLocalMax(d, i) == \A j \in {i - 1, i + 1} \cap DOMAIN d : d[i] >= d[j]
Distinct(d) == \A i, j \in DOMAIN d : i # j => d[i] # d[j]

(***************************************************************************)
(* C1 as stated: a signal of length N >= 2 yields exactly N pairs.         *)
(* Refuted: a monotone signal has no merge event and yields one entry.     *)
(***************************************************************************)
C1_ExactlyNPairs == (HasReturned /\ N >= 2) => Len(out) = N

\* C1 (amended): for every signal of length N >= 2 and either mode the
\* returned list has 2*M + 1 entries, M being the number of interior indices
\* processed after both neighbours (the merge events); that is 2*M paired
\* entries plus one global entry, and never more than N entries.
C1_TwoPerMergePlusOne ==
    (HasReturned /\ N >= 2) =>
        /\ Len(out) = 2 * Cardinality(MergeIndices(data, level_sets)) + 1
        /\ Len(out) <= N

C1_Witness == pc = "returned" /\ N >= 4 /\ Len(out) = 3

(***************************************************************************)
(* C2: the last entry is (root of index 0, +inf), that root holds the      *)
(* global minimum (lower) or maximum (upper), and no other entry is +inf.  *)
(***************************************************************************)
C2_GlobalEntryLast ==
    (HasReturned /\ N >= 2) =>
        LET last == out[Len(out)]
        IN  /\ last.pers.inf
            /\ last.idx = Find(Domain, 0)
            /\ level_sets = "lower" => IsGlobalMin(data, last.idx)
            /\ level_sets = "upper" => IsGlobalMax(data, last.idx)
            /\ \A k \in 1..(Len(out) - 1) : ~out[k].pers.inf

C2_Witness ==
    /\ pc = "returned"
    /\ N >= 3
    /\ Len(out) >= 3
    /\ out[Len(out)].idx # 0
    /\ ~IsGlobalMin(data, 0)
    /\ ~IsGlobalMax(data, 0)

(***************************************************************************)
(* C3: every persistence value other than the global entry's is >= 0,      *)
(* in both modes and at every point of the sweep.                          *)
(***************************************************************************)
C3_NonNegativePersistence ==
    \A k \in 1..Len(out) : ~out[k].pers.inf => out[k].pers.val >= 0

C3_Witness ==
    /\ pc = "returned"
    /\ level_sets = "upper"
    /\ \E k \in 1..Len(out) : ~out[k].pers.inf /\ out[k].pers.val > 0

(***************************************************************************)
(* C5: the returned list has an odd number of entries; while the sweep     *)
(* runs the list holds two entries per merge event, an even number.        *)
(***************************************************************************)
C5_OddLength ==
    /\ HasReturned => IsOdd(Len(out))
    /\ pc = "sweep" => IsEven(Len(out))

C5_Witness == pc = "returned" /\ Len(out) = 5

(***************************************************************************)
(* C4 as stated: run_persistence(-s, swapped mode) has the same indices at *)
(* the same positions of the list with the same persistence, ties or not.  *)
(* Refuted: the two entries of a pair are appended in opposite orders in   *)
(* the two modes, and equal values are processed in opposite orders.       *)
(***************************************************************************)
Mirror == run_persistence(Neg(data), Swap(level_sets))
SwapPairs(x) ==
    [k \in 1..Len(x) |-> IF k = Len(x) THEN x[k]
                         ELSE IF IsOdd(k) THEN x[k + 1] ELSE x[k - 1]]

C6_OddAreMinima ==
    HasReturned =>
        \A p \in 0..(Len(out) - 1) :
            IF level_sets = "lower"
            THEN IF IsOdd(p) THEN IsLocalMin(data, At(out, p).idx)
                 ELSE IsLocalMax(data, At(out, p).idx)
            ELSE IF IsOdd(p) THEN IsLocalMax(data, At(out, p).idx)
                 ELSE IsLocalMin(data, At(out, p).idx)

\* C6 (amended): in both modes the paired entries at even positions
\* (0-indexed) are local minima of the signal and those at odd positions are
\* local maxima; the trailing global entry, at an even position, is the
\* global minimum in lower mode and the global maximum in upper mode.
C6_EvenAreMinima ==
    HasReturned =>
        /\ \A p \in 0..(Len(out) - 2) :
               IF IsEven(p) THEN IsLocalMin(data, At(out, p).idx)
               ELSE IsLocalMax(data, At(out, p).idx)
        /\ IsEven(Len(out) - 1)
        /\ level_sets = "lower" => IsGlobalMin(data, At(out, Len(out) - 1).idx)
        /\ level_sets = "upper" => IsGlobalMax(data, At(out, Len(out) - 1).idx)

C6_Witness ==
    /\ pc = "returned"
    /\ Len(out) >= 3
    /\ ~IsLocalMax(data, At(out, 0).idx)
    /\ ~IsLocalMin(data, At(out, 1).idx)

(***************************************************************************)
(* C7 as stated, on [1, 5, 2, 8, 3] in lower mode: minima 2 and 4 are      *)
(* paired with maxima 1 and 3, each pair's persistence is the maximum's    *)
(* value minus the LOWER of its two neighbouring minima, index 0 is last   *)
(* with +inf.  Refuted: the code subtracts the merged-away (higher) one.   *)
(***************************************************************************)
IsExampleRun == data = ExampleSignal /\ level_sets = "lower" /\ pc = "returned"
ExamplePairing ==
    /\ Len(out) = 5
    /\ {out[1].idx, out[3].idx} = {2, 4}
    /\ {out[2].idx, out[4].idx} = {1, 3}
    /\ out[5] = Pair(0, PInf)
C7_MinusLowerMinimum ==
    IsExampleRun =>
        /\ ExamplePairing
        /\ \A k \in {1, 3} :
               LET mx == out[k + 1].idx
                   p == PFin(data[mx] - Min2(data[mx - 1], data[mx + 1]))
               IN  out[k].pers = p /\ out[k + 1].pers = p

\* C7 (amended): on [1, 5, 2, 8, 3] in lower mode the minima at 2 and 4 are
\* paired with the maxima at 1 and 3, each pair's persistence is the value of
\* the merging maximum minus the value of the HIGHER-valued of the two minima
\* it merges (the merged-away one): (2,3), (1,3), (4,5), (3,5); index 0 ends
\* the list with +inf.
C7_MinusHigherMinimum ==
    IsExampleRun =>
        /\ ExamplePairing
        /\ \A k \in {1, 3} :
               LET mx == out[k + 1].idx
                   p == PFin(data[mx] - Max2(data[mx - 1], data[mx + 1]))
               IN  out[k].pers = p /\ out[k + 1].pers = p
        /\ out = <<Pair(2, PFin(3)), Pair(1, PFin(3)),
                   Pair(4, PFin(5)), Pair(3, PFin(5)), Pair(0, PInf)>>

C7_Witness == IsExampleRun /\ Len(out) = 5 /\ out[3].idx = 4

(***************************************************************************)
(* C8: filtering is idempotent, and the filtered list is the sub-list, in  *)
(* order, of the entries whose persistence is strictly above the threshold.*)
(* Checked of every list the engine builds or the filter returns.          *)
(***************************************************************************)
KeptPositions(x, t) == {k \in 1..Len(x) : x[k].pers.inf \/ x[k].pers.val > t}
\* the j-th smallest element of a set of positions
NthPosition(K, j) == CHOOSE k \in K : Cardinality({i \in K : i <= k}) = j
IsStrictSubsequence(x, t, y) ==
    /\ Len(y) = Cardinality(KeptPositions(x, t))
    /\ \A j \in 1..Len(y) : y[j] = x[NthPosition(KeptPositions(x, t), j)]
C8_FilterIdempotent ==
    /\ \A x \in {out, filtered} : \A t \in Thresholds :
           LET y == FilterExtremumPointsByPersistence(x, t)
           IN  /\ FilterExtremumPointsByPersistence(y, t) = y
               /\ IsStrictSubsequence(x, t, y)
    /\ pc = "filtered" =>
           FilterExtremumPointsByPersistence(filtered, Threshold) = filtered

C8_Witness ==
    /\ pc = "filtered"
    /\ Len(filtered) = 3
    /\ Len(out) = 5
    /\ \E k \in 1..Len(out) : out[k].pers = PFin(Threshold)

(***************************************************************************)
(* C9 as stated: run_persistence never returns a pair list for a signal of *)
(* length 0 or 1.  The code returns [(0, +inf)] for a signal of length 1.  *)
(***************************************************************************)
C9_ShortSignalRejected == N < 2 => pc # "returned"

(***************************************************************************)
(* C10: a chromosome shorter than the minimum size never reaches step 1    *)
(* nor a later step: call.run iterates only over the selected chromosomes, *)
(* and a task of the GUI flagged as skipped starts no step.                *)
(***************************************************************************)
C10_ShortNeverReachesStep1 ==
    /\ \A sr \in steps_run : chroms[sr[1]] >= min_chrom_size
    /\ entry = "cli" =>
           \A k \in 1..Len(c_pairs) : chroms[c_pairs[k][2]] >= min_chrom_size
    /\ entry = "gui" =>
           \A k \in 1..Len(tasks) :
               tasks[k].skip => \A sr \in steps_run : sr[1] # tasks[k].name

C10_Witness ==
    /\ entry = "cli"
    /\ opc = "returned"
    /\ \E c \in ChromNames(chroms) : chroms[c] < min_chrom_size
    /\ \E c \in ChromNames(chroms) : <<c, 4>> \in steps_run /\ c \in written

(***************************************************************************)
(* C11: in call.run the stages of a chromosome run strictly in the order   *)
(* 1, 2, 3, 4: a stage starts only when the previous stage of the same     *)
(* chromosome has completed, step 2 reads the matrices step 1 made for     *)
(* this chromosome, steps 3 and 4 the result of the step before, and a     *)
(* chromosome is written only after its step 4.                            *)
(***************************************************************************)
StageCompleted(c, k) ==
    \/ c \in written
    \/ cidx < Len(c_pairs) /\ this_chr = c /\ stage >= k
C11_StrictStageOrder ==
    entry = "cli" =>
        /\ \A sr \in steps_run :
               sr[2] >= 2 =>
                   <<sr[1], sr[2] - 1>> \in steps_run /\ StageCompleted(sr[1], sr[2] - 1)
        /\ \A c \in written : \A k \in 1..4 : <<c, k>> \in steps_run
        /\ (cidx < Len(c_pairs) /\ stage >= 1) => lt_matrix = this_chr
        /\ (cidx < Len(c_pairs) /\ stage >= 2) => result = this_chr

C11_Witness ==
    /\ entry = "cli"
    /\ opc = "returned"
    /\ Cardinality(written) = 2
    /\ Cardinality(steps_run) >= 8

(***************************************************************************)
(* C13 as stated: when a stage raises for one chromosome, the other        *)
(* chromosomes of the run are still processed and written.  In the code    *)
(* nothing catches the exception: the loop and the run end.                *)
(***************************************************************************)
C13_OthersUnaffected ==
    (entry = "cli" /\ opc = "raised") =>
        \A k \in 1..Len(c_pairs) : k # cidx + 1 => c_pairs[k][2] \in written

(***************************************************************************)
(* Vocabulary of the sweep properties.                                     *)
(***************************************************************************)
Range(s) == {s[k] : k \in 1..Len(s)}
IsSet(uf, i) == uf[i] # NOSET
Members(uf, roots) == {i \in DOMAIN uf : IsSet(uf, i) /\ Find(uf, i) \in roots}
IsMerge == MergeLower \/ MergeUpper
\* r holds the extreme value of the mode among the indices in S
HoldsExtremum(d, m, r, S) ==
    IF m = "lower" THEN \A i \in S : d[r] <= d[i] ELSE \A i \in S : d[r] >= d[i]

(***************************************************************************)
(* C18: at every point of the sweep the root of a component holds the      *)
(* smallest value of its members in lower mode, the largest in upper       *)
(* mode; a merge keeps, of the two neighbouring roots, the one with the    *)
(* extreme value, and afterwards all members of both components and the    *)
(* merge index resolve to it.                                              *)
(***************************************************************************)
RootHoldsExtremum ==
    pc \in {"sweep", "returned", "filtered"} =>
        \A i \in DOMAIN Domain :
            IsSet(Domain, i) =>
                HoldsExtremum(data, level_sets, Find(Domain, i), Members(Domain, {Find(Domain, i)}))
MergeKeepsExtremeRoot ==
    IsMerge =>
        LET roots == Range(NeighborComponents(data, Domain, CurrentIdx))
            merged == Members(Domain, roots) \cup {CurrentIdx}
        IN  \E r \in roots :
                /\ HoldsExtremum(data, level_sets, r, roots)
                /\ \A i \in merged : Find(Domain', i) = r
C18_RootHoldsExtremum == []RootHoldsExtremum /\ [][MergeKeepsExtremeRoot]_vars

C18_Witness ==
    /\ pc = "sweep"
    /\ level_sets = "upper"
    /\ Len(out) >= 2
    /\ \E i \in DOMAIN Domain : IsSet(Domain, i) /\ Domain[i] # Find(Domain, i)

(***************************************************************************)
(* C19: a merge event appends exactly two consecutive entries with the     *)
(* same persistence p: in lower mode (merged-away root, p) then (idx, p)    *)
(* with p = value[idx] - value[root]; in upper mode (idx, p) then           *)
(* (merged-away root, p) with p = value[root] - value[idx].  No other step *)
(* of the sweep appends, so the 0-based positions 2i and 2i+1 of the list  *)
(* always hold the same persistence.                                       *)
(***************************************************************************)
MergeAppendsPair ==
    IsMerge =>
        \E r \in Range(NeighborComponents(data, Domain, CurrentIdx)) :
            /\ Find(Domain', r) # r
            /\ IF level_sets = "lower"
               THEN LET p == PFin(data[CurrentIdx] - data[r])
                    IN  out' = out \o <<Pair(r, p), Pair(CurrentIdx, p)>>
               ELSE LET p == PFin(data[r] - data[CurrentIdx])
                    IN  out' = out \o <<Pair(CurrentIdx, p), Pair(r, p)>>
OnlyMergeAppends == (pc = "sweep" /\ pc' = "sweep" /\ ~IsMerge) => out' = out
PairedPositions ==
    pc = "sweep" =>
        /\ IsEven(Len(out))
        /\ \A i \in 0..((Len(out) \div 2) - 1) : At(out, 2 * i).pers = At(out, 2 * i + 1).pers
C19_MergeAppendsEqualPair ==
    [][MergeAppendsPair /\ OnlyMergeAppends]_vars /\ []PairedPositions

C19_Witness ==
    /\ pc = "sweep"
    /\ level_sets = "upper"
    /\ Len(out) = 2
    /\ At(out, 0).pers = At(out, 1).pers
    /\ At(out, 0).pers.val > 0
    /\ data[At(out, 1).idx] > data[At(out, 0).idx]

(***************************************************************************)
(* C20: the processing order is a permutation of 0..N-1, by value          *)
(* ascending with equal values in ascending index order in lower mode, by  *)
(* value descending with equal values in descending index order in upper   *)
(* mode; the sweep processes the order from the front, one index per       *)
(* iteration, so every index is processed exactly once.                    *)
(***************************************************************************)
IsPermutation(s, S) == Len(s) = Cardinality(S) /\ Range(s) = S
C12_PoolMapMatchesBuiltin ==
    mpc = "returned" =>
        /\ Len(stripes) = Len(seeds)
        /\ \A i \in 1..Len(seeds) : stripes[i] = Shape(seeds[i])
        /\ stripes = BuiltinMap(seeds)

C12_Witness ==
    /\ mpc = "returned"
    /\ nproc = 3
    /\ seeds = <<2, 0, 1>>
    /\ completion = <<3, 1, 2>>

(***************************************************************************)
(* Vocabulary of the command-line properties.                              *)
(***************************************************************************)
ParseArgsDone == apc \in {"returned", "error"}
GivenProbabilities ==
    {tok \in {cli_args.glob_pers_min, cli_args.loc_pers_min, cli_args.loc_trend_min} :
        tok.kind # "absent"}
InUnitInterval(tok) == tok.kind = "num" /\ 0 <= tok.num /\ tok.num <= ProbDenominator
IsInteger(tok) == tok.kind = "num"
OptionsWellTyped ==
    /\ \A tok \in GivenProbabilities : InUnitInterval(tok)
    /\ cli_args.max_width.kind # "absent" => IsInteger(cli_args.max_width)
RoiGiven == cli_args.roi \in RoiChoices
\* the path collisions that exist for the command line on this file system
Collisions ==
    {c \in {"output_file"} : fs.output_file}
    \cup {c \in {"log_file"} : cli_args.log_file /\ fs.log_file}
    \cup {c \in {"plot_dir is a file"} : cli_args.plot_dir /\ fs.plot_dir = "file"}
    \cup {c \in {"plot_dir is not empty"} : cli_args.plot_dir /\ fs.plot_dir = "nonempty_dir"}

(***************************************************************************)
(* C14: a value given for --glob-pers-min, --loc-pers-min or               *)
(* --loc-trend-min is accepted if and only if it is a number in [0, 1]:    *)
(* any other value ends parse_args in an argument error before the         *)
(* argument dictionary exists, and values in [0, 1] never do.              *)
(***************************************************************************)
C14_ProbabilityIffUnitInterval ==
    apc \notin {"idle", "call"} =>
        /\ (\E tok \in GivenProbabilities : ~InUnitInterval(tok)) =>
               apc = "error" /\ error.kind = "argument" /\ args = NoArgs
        /\ OptionsWellTyped => error.kind # "argument"

C14_Witness ==
    /\ apc = "returned"
    /\ cli_args.glob_pers_min = Num(0)
    /\ cli_args.loc_pers_min = Num(ProbDenominator)
    /\ cli_args.loc_trend_min = Num(1)

(***************************************************************************)
(* C15 as stated: parse_args never returns with a --max-width that is      *)
(* zero or negative.  The option is declared with type=int, which takes    *)
(* every integer.                                                          *)
(***************************************************************************)
C15_NonPositiveMaxWidthRejected ==
    apc = "returned" => ~(IsInteger(cli_args.max_width) /\ cli_args.max_width.num <= 0)

C17_ErrorIffCollision ==
    ParseArgsDone =>
        /\ ~cli_args.force => (apc = "error" <=> Collisions # {})
        /\ cli_args.force => error.kind # "path collision"

(***************************************************************************)
(* C17, amended: for a command line whose options are well typed and that  *)
(* meets the --roi/--plot-dir requirement, parse_args without --force ends *)
(* in a parser error if and only if a path collision exists, and the error *)
(* lists every collision once; with --force it returns.                    *)
(***************************************************************************)
C17_CollisionErrorIffCollision ==
    (ParseArgsDone /\ OptionsWellTyped /\ ~(RoiGiven /\ ~cli_args.plot_dir)) =>
        /\ ~cli_args.force =>
               /\ apc = "error" <=> Collisions # {}
               /\ apc = "error" =>
                      /\ error.kind = "path collision"
                      /\ Range(error.collisions) = Collisions
                      /\ Len(error.collisions) = Cardinality(Collisions)
        /\ cli_args.force => apc = "returned"

C17_Witness ==
    /\ apc = "error"
    /\ ~cli_args.force
    /\ Len(error.collisions) = 3
    /\ RoiGiven

(***************************************************************************)
(* C21: at a merge whose two roots hold equal values, the root with the    *)
(* lower index, which is the one left of idx, survives and the root with   *)
(* the higher index is the one recorded as merged away, in both modes.     *)
(***************************************************************************)
TiedMerge ==
    /\ IsMerge
    /\ LET nc == NeighborComponents(data, Domain, CurrentIdx)
       IN  data[nc[1]] = data[nc[2]]
LowestIndexSurvivesTie ==
    TiedMerge =>
        LET roots == Range(NeighborComponents(data, Domain, CurrentIdx))
            lo == CHOOSE r \in roots : \A q \in roots : r <= q
            hi == CHOOSE r \in roots : \A q \in roots : r >= q
            recorded == IF level_sets = "lower" THEN At(out', Len(out)) ELSE At(out', Len(out) + 1)
        IN  /\ lo < CurrentIdx /\ CurrentIdx < hi
            /\ Find(Domain', lo) = lo
            /\ Find(Domain', hi) = lo
            /\ recorded.idx = hi
C21_LowestIndexSurvivesTie == [][LowestIndexSurvivesTie]_vars

C21_Witness ==
    /\ pc = "sweep"
    /\ level_sets = "upper"
    /\ Len(out) = 2
    /\ At(out, 1).pers.val > 0
    /\ data[At(out, 1).idx] = data[Find(Domain, At(out, 1).idx)]
    /\ Find(Domain, At(out, 1).idx) < At(out, 1).idx

(***************************************************************************)
(* C22: at every step of the sweep the components are contiguous index     *)
(* intervals; the index about to be processed is in no component, so a     *)
(* neighbour clamped onto idx itself is never counted, and when both       *)
(* neighbours are in a component the two roots differ: 0, 1 or 2 distinct  *)
(* components touch idx.                                                   *)
(***************************************************************************)
IsInterval(S) == \A i, k \in S : \A j \in i..k : j \in S
C22_ContiguousComponents ==
    pc = "sweep" =>
        /\ \A i \in DOMAIN Domain :
               IsSet(Domain, i) => IsInterval(Members(Domain, {Find(Domain, i)}))
        /\ InLoop =>
               LET nc == NeighborComponents(data, Domain, CurrentIdx)
               IN  /\ ~IsSet(Domain, CurrentIdx)
                   /\ Len(nc) \in {0, 1, 2}
                   /\ Cardinality(Range(nc)) = Len(nc)
                   /\ Len(nc) = 2 => (nc[1] < CurrentIdx /\ CurrentIdx < nc[2])

C22_Witness ==
    /\ InLoop
    /\ N >= 4
    /\ CurrentIdx = N - 1
    /\ Len(NeighborComponents(data, Domain, CurrentIdx)) = 1
    /\ Cardinality({Find(Domain, i) : i \in {j \in DOMAIN Domain : IsSet(Domain, j)}}) = 2

(***************************************************************************)
(* C23: applied to what run_persistence returned, Diversify returns a      *)
(* minima list whose indices are local minima of the signal (no neighbour  *)
(* is smaller) and a maxima list whose indices are local maxima (no        *)
(* neighbour is larger); the two lists hold every entry of the input       *)
(* exactly once; the global entry is the last element of the minima in     *)
(* lower mode and the last element of the maxima in upper mode.            *)
(***************************************************************************)
SeqToBag(x) == [e \in Range(x) |-> Cardinality({k \in 1..Len(x) : x[k] = e})]
DiversifiedOutput == pc = "diversified" /\ ExtremumPointsAndPersistence = out
C23_DiversifyPartitions ==
    DiversifiedOutput =>
        LET mins == MinimumPointsAndPersistence
            maxs == MaximumPointsAndPersistence
        IN  /\ \A k \in 1..Len(mins) : IsLocalMin(data, mins[k].idx)
            /\ \A k \in 1..Len(maxs) : IsLocalMax(data, maxs[k].idx)
            /\ Len(mins) + Len(maxs) = Len(out)
            /\ SeqToBag(mins \o maxs) = SeqToBag(out)
            /\ level_sets = "lower" => (mins # <<>> /\ Last(mins) = Last(out))
            /\ level_sets = "upper" => (maxs # <<>> /\ Last(maxs) = Last(out))

C23_Witness ==
    /\ DiversifiedOutput
    /\ level_sets = "upper"
    /\ Len(MinimumPointsAndPersistence) = 1
    /\ Len(MaximumPointsAndPersistence) = 2
    /\ ~Distinct(data)

(***************************************************************************)
(* C27: filtering what run_persistence returned keeps or removes the two   *)
(* entries of a pair together and keeps the trailing global entry, so      *)
(* Diversify of the filtered list equals the filtered lists of Diversify:  *)
(* Diversify(Filter(x, t), m) = (Filter(min, t), Filter(max, t)) with      *)
(* (min, max) = Diversify(x, m).                                           *)
(***************************************************************************)
NumPairs(x) == (Len(x) - 1) \div 2
PairsFilteredTogether(x, t) ==
    /\ \A i \in 0..(NumPairs(x) - 1) :
           PGreater(At(x, 2 * i).pers, t) <=> PGreater(At(x, 2 * i + 1).pers, t)
    /\ PGreater(Last(x).pers, t)
\* the list diversified is the returned list filtered once with Threshold
DiversifiedFiltered ==
    /\ pc = "diversified"
    /\ filtered = FilterExtremumPointsByPersistence(out, Threshold)
    /\ ExtremumPointsAndPersistence = filtered
C27_FilterCommutesWithDiversify ==
    DiversifiedFiltered =>
        /\ PairsFilteredTogether(out, Threshold)
        /\ Last(ExtremumPointsAndPersistence) = Last(out)
        /\ MinimumPointsAndPersistence =
               FilterExtremumPointsByPersistence(DiversifyMinima(out, level_sets), Threshold)
        /\ MaximumPointsAndPersistence =
               FilterExtremumPointsByPersistence(DiversifyMaxima(out, level_sets), Threshold)

C27_Witness ==
    /\ DiversifiedFiltered
    /\ Len(out) = 5
    /\ Len(ExtremumPointsAndPersistence) = 3
    /\ Len(MinimumPointsAndPersistence) = 2
    /\ At(ExtremumPointsAndPersistence, 0) = At(out, 2)

(***************************************************************************)
(* C25: the sweep never violates a union-find precondition: MakeSet is     *)
(* called on an unset index, ExtendSetByID with a current root and an      *)
(* unset element, Union with two distinct current roots; once the last     *)
(* index is processed every index is set and all resolve to one root.      *)
(***************************************************************************)
IsRoot(uf, r) == uf[r] = r
UnionFindPreconditions ==
    LET nc == NeighborComponents(data, Domain, CurrentIdx)
    IN  /\ NewComponent => ~IsSet(Domain, CurrentIdx)
        /\ ExtendComponent => (~IsSet(Domain, CurrentIdx) /\ IsRoot(Domain, nc[1]))
        /\ IsMerge =>
               /\ ~IsSet(Domain, CurrentIdx)
               /\ IsRoot(Domain, nc[1]) /\ IsRoot(Domain, nc[2])
               /\ nc[1] # nc[2]
OneComponentAtTheEnd ==
    (LoopDone /\ N >= 1) =>
        \A i \in DOMAIN Domain : IsSet(Domain, i) /\ Find(Domain, i) = Find(Domain, 0)
C25_UnionFindPreconditions == [][UnionFindPreconditions]_vars /\ []OneComponentAtTheEnd

C25_Witness ==
    /\ LoopDone
    /\ N = 4
    /\ Len(out) = 2
    /\ Find(Domain, 0) # 0
    /\ \E i \in DOMAIN Domain : Domain[i] # Find(Domain, i)

(***************************************************************************)
(* C26: no index appears twice in the sequence run_persistence returns:    *)
(* during the sweep no recorded index is a root (a merged-away root never  *)
(* becomes a root again, a merge index never is one), the recorded indices *)
(* are pairwise different, and the index of the global entry is the root   *)
(* left at the end, which is none of the paired entries.                   *)
(***************************************************************************)
Indices(x) == [k \in 1..Len(x) |-> x[k].idx]
C26_NoIndexTwice ==
    /\ pc = "sweep" =>
           /\ \A k \in 1..Len(out) : IsSet(Domain, out[k].idx) /\ ~IsRoot(Domain, out[k].idx)
           /\ Cardinality(Range(Indices(out))) = Len(out)
    /\ HasReturned =>
           /\ Cardinality(Range(Indices(out))) = Len(out)
           /\ IsRoot(Domain, Last(out).idx)
           /\ \A k \in 1..(Len(out) - 1) : out[k].idx # Last(out).idx

C26_Witness ==
    /\ pc = "returned"
    /\ level_sets = "upper"
    /\ N = 4
    /\ Len(out) = 3
    /\ ~Distinct(data)
    /\ Last(out).idx # 0

(***************************************************************************)
(* Vocabulary of the GUI properties.  Positions in the parameter tuple:    *)
(* 0 path, 1 resolution, 5 normalization, 6 genomic belt, 7 glob_pers_min, *)
(* 8 max_width, 9 loc_trend_min, 10 k, 12 loc_pers_min.                    *)
(***************************************************************************)
ChangedParams == {i \in ParamIndices : input_params[i] # state_params[i]}
ConsumedBy(step) ==
    IF step = 1 THEN {0, 1, 5, 6}
    ELSE IF step = 2 THEN {7}
    ELSE IF step = 3 THEN {8, 9, 12}
    ELSE {10}
StepsIn(seq) == {k \in 1..4 : \E j \in 1..Len(seq) : seq[j] = functions_list[k]}
IsSuffixOfSteps(seq) ==
    \E k \in 1..4 : \E flag \in {"True", "False"} :
        seq = SubSeq(functions_list, k, 4) \o <<flag>>
GuiPlanned == entry = "gui" /\ opc # "call"

(***************************************************************************)
(* C28 as stated: with equal tuples nothing is re-run; otherwise the       *)
(* result is a suffix of (step 1, ..., step 4) that holds every step       *)
(* consuming a changed parameter.  The code decides by the first position  *)
(* that differs, and loc_pers_min sits after k in the tuple.               *)
(***************************************************************************)
C28_SuffixCoversChangedParams ==
    GuiPlanned =>
        IF ChangedParams = {} THEN functions_sequence = <<>>
        ELSE /\ IsSuffixOfSteps(functions_sequence)
             /\ \A step \in 1..4 :
                    ConsumedBy(step) \cap ChangedParams # {} =>
                        step \in StepsIn(functions_sequence)

(***************************************************************************)
(* C29 as stated: in call_stripes_callback a step is only run on inputs    *)
(* made earlier in the same invocation for the same chromosome, and no     *)
(* step reads an undefined value.  A sequence that starts after step 1     *)
(* reads lt_matrix (and result) before anything assigned them.             *)
(***************************************************************************)
C29_GuiInputsProducedBefore ==
    entry = "gui" =>
        /\ opc # "UnboundLocalError"
        /\ \A sr \in steps_run :
               sr[2] >= 2 => <<sr[1], sr[2] - 1>> \in steps_run

(***************************************************************************)
(* C24 as stated: for every non-empty ascending list and every target,     *)
(* _pick_closest returns an element of the list at minimal distance from   *)
(* the target, also when the target is below or above every element.  For  *)
(* such a target no pair of consecutive elements brackets it and the       *)
(* function returns None.                                                  *)
(***************************************************************************)
C24_PicksClosest ==
    kpc = "returned" =>
        /\ ~closest.none
        /\ closest.val \in Range(array)
        /\ \A v \in Range(array) : Abs(closest.val - target_res) <= Abs(v - target_res)
        /\ target_res \in Range(array) => closest.val = target_res

(***************************************************************************)
(* C30 as stated: for a list longer than max_number, _trim_list returns    *)
(* the elements at strictly increasing positions of the input, at most     *)
(* max_number of them, the first being the input's first element and the   *)
(* last the input's last.  When the last position is a multiple of the     *)
(* step, the loop picks it and line 70 appends it a second time.           *)
(***************************************************************************)
C30_TrimIsSubsequence ==
    (tpc = "returned" /\ Len(list_long) > max_number) =>
        /\ Len(trimmed_list) = Len(picked)
        /\ \A k \in 1..Len(picked) : trimmed_list[k] = At(list_long, picked[k])
        /\ \A k \in 1..(Len(picked) - 1) : picked[k] < picked[k + 1]
        /\ Len(trimmed_list) <= max_number
        /\ picked[1] = 0
        /\ Last(picked) = Len(list_long) - 1

====
